---------------------------- MODULE Spec2Model ----------------------------
(***************************************************************************)
(* A model of batch/ecg_batch_tools.py: the numeric transforms             *)
(* (segment_signals, random_segment_signals, resample_signals,             *)
(* convolve_signals, band_pass_signals) as operators applied by one action *)
(* each, and the annotation adapters (predict_hmm_classes, get_gradient,   *)
(* convolve_layer, merge_list_of_layers) as actions on the annotation      *)
(* mapping.                                                                *)
(*                                                                         *)
(* Arrays: a 1-D array is a sequence of integers, a 2-D array a sequence   *)
(* of rows (channel, time), a 3-D batch a sequence of 2-D arrays.  Python  *)
(* indices are 0-based: the element at Python index j of row r is r[j+1].  *)
(* Arithmetic is exact: a value that numpy holds as a float is held as an  *)
(* integer numerator over a denominator that the array carries.            *)
(***************************************************************************)
EXTENDS Integers, Sequences, FiniteSets, TLC

VARIABLES signals, annot, op, args, res

vars == <<signals, annot, op, args, res>>

(***************************************************************************)
(* Bounds of the model.                                                    *)
(***************************************************************************)
MaxCh == 2
MaxT == 4
MaxStep == 2
MaxSeg == 2
MaxNew == 4
MaxKernel == 3
MaxFreq == 3
MaxCut == 2
MaxOrder == 2
MaxKeys == 2

(***************************************************************************)
(* Generic helpers.                                                        *)
(***************************************************************************)
Min(a, b) == IF a < b THEN a ELSE b
Max(a, b) == IF a > b THEN a ELSE b

None == <<>>
Some(v) == <<v>>

Ok(v) == [ok |-> TRUE, value |-> v]
Raise(e) == [ok |-> FALSE, error |-> e]

NChannels(a) == Len(a)
TimeLen(a) == Len(a[1])

(***************************************************************************)
(* The input signals: for every shape (channels, time) a row-major ramp    *)
(* (all entries distinct), a signal that is constant along time, and a     *)
(* non-linear one; the adapters get a signal of alternating 0 and 1, which *)
(* keeps the repeatedly squared layers small.                              *)
(***************************************************************************)
Kinds == {"ramp", "const", "square"}

MkSignal(c, t, kind) ==
    [ch \in 1..c |-> [j \in 1..t |->
        CASE kind = "ramp" -> (ch - 1) * t + (j - 1)
          [] kind = "const" -> ch + 1
          [] kind = "square" -> (j - 1) * (j - 1) + ch
          [] OTHER -> (ch + j) % 2]]

Signals == {MkSignal(c, t, k) : c \in 1..MaxCh, t \in 1..MaxT, k \in Kinds}

(***************************************************************************)
(* numpy basic slicing row[start:stop] on one axis: a negative bound       *)
(* counts from the end, and both bounds are clamped to the axis.           *)
(***************************************************************************)
SliceBound(v, n) == IF v < 0 THEN Max(v + n, 0) ELSE Min(v, n)

PySlice(row, start, stop) ==
    LET a == SliceBound(start, Len(row))
        b == SliceBound(stop, Len(row))
    IN  [j \in 1..Max(b - a, 0) |-> row[a + j]]

\* signals[:, start:stop]
TimeSlice(sig, start, stop) == [ch \in 1..Len(sig) |-> PySlice(sig[ch], start, stop)]

(***************************************************************************)
(* res[i, :, :] = src, for a destination of time length `length`: the      *)
(* source must have that length, or length 1 (it is then broadcast).       *)
(***************************************************************************)
CanAssign(src, length) == TimeLen(src) = length \/ TimeLen(src) = 1

AssignWindow(src, length) ==
    [ch \in 1..Len(src) |->
        [j \in 1..length |-> IF TimeLen(src) = length THEN src[ch][j] ELSE src[ch][1]]]

(***************************************************************************)
(* segment_signals                                                         *)
(***************************************************************************)
\* the count without the window at offset 0
SegCountNoPlusOne(time_len, length, step) == (time_len - length) \div step

\* the first dimension of res, line 53
SegCount(time_len, length, step) == (time_len - length) \div step + 1

\* the slice bounds of window i, line 55
SegStart(i, step) == i * step

segment_signals(sig, length, step) ==
    IF step = 0 THEN Raise("ZeroDivisionError")
    ELSE LET n == SegCount(TimeLen(sig), length, step)
             src(i) == TimeSlice(sig, SegStart(i, step), SegStart(i, step) + length)
         IN  IF n < 0 \/ length < 0 THEN Raise("ValueError")
             ELSE IF \E i \in 0..(n - 1) : ~CanAssign(src(i), length)
                  THEN Raise("ValueError")
                  ELSE Ok([i \in 1..n |-> AssignWindow(src(i - 1), length)])

(***************************************************************************)
(* random_segment_signals                                                  *)
(***************************************************************************)
\* a draw that could return its upper bound
RandintInclusiveHigh(low, high) == low..high

\* np.random.randint(low, high): the possible draws; none when low >= high
Randint(low, high) == low..(high - 1)

\* the result for the drawn offsets ix (one per segment), lines 77-81
random_segment_signals(sig, length, n_segments, ix) ==
    IF n_segments < 0 \/ length < 0 THEN Raise("ValueError")
    ELSE IF n_segments > 0 /\ Randint(0, TimeLen(sig) - length + 1) = {}
         THEN Raise("ValueError")
         ELSE [ok |-> TRUE, ix |-> ix,
               value |-> [i \in 1..n_segments |->
                   AssignWindow(TimeSlice(sig, ix[i], ix[i] + length), length)]]

\* the sequences of draws the loop can make
Draws(sig, length, n_segments) ==
    IF n_segments <= 0 \/ length < 0 THEN {<<>>}
    ELSE LET r == Randint(0, TimeLen(sig) - length + 1)
         IN  IF r = {} THEN {<<>>} ELSE [1..n_segments -> r]

(***************************************************************************)
(* resample_signals.  A position of np.linspace(0, stop, num) is held as   *)
(* its numerator over the common denominator LinDen(num); the output       *)
(* carries the same denominator.                                           *)
(***************************************************************************)
LinDen(num) == Max(num - 1, 1)

\* the grid without its end point: num steps of stop / num
linspaceNoEndpoint(stop, num) == [i \in 1..num |-> ((i - 1) * stop * LinDen(num)) \div num]

\* np.linspace(0, stop, num), line 100: [0] when num = 1
linspace(stop, num) == [i \in 1..num |-> IF num = 1 THEN 0 ELSE (i - 1) * stop]

\* arg.astype(np.int32), line 101
XLeft(arg, den) == [i \in 1..Len(arg) |-> arg[i] \div den]

\* x_right = x_left + 1; x_right[-1] = x_left[-1], lines 102-103
XRight(x_left) ==
    [i \in 1..Len(x_left) |-> IF i = Len(x_left) THEN x_left[i] ELSE x_left[i] + 1]

\* signals[ch, x]: a read outside the buffer yields whatever lies there
\* (oob = <<g>>) in a build without bounds checks
ReadColumn(sig, ch, x, oob) ==
    IF x \in 0..(TimeLen(sig) - 1) THEN sig[ch][x + 1] ELSE oob[1]

\* what a read outside the buffer can do: raise IndexError (<<>>, a build
\* with bounds checks) or yield a value
OutOfBounds == {<<>>, <<0>>, <<7>>}

InsideBuffer(sig, xs) == \A i \in 1..Len(xs) : xs[i] \in 0..(TimeLen(sig) - 1)

resample_signals(sig, new_length, oob) ==
    LET den == LinDen(new_length)
        arg == linspace(TimeLen(sig) - 1, new_length)
        x_left == XLeft(arg, den)
        x_right == XRight(x_left)
        alpha == [i \in 1..new_length |-> arg[i] - x_left[i] * den]
        y_left(ch, i) == ReadColumn(sig, ch, x_left[i], oob)
        y_right(ch, i) == ReadColumn(sig, ch, x_right[i], oob)
    IN  IF oob = <<>> /\ ~(InsideBuffer(sig, x_left) /\ InsideBuffer(sig, x_right))
        THEN [ok |-> FALSE, error |-> "IndexError", x_left |-> x_left, x_right |-> x_right]
        ELSE [ok |-> TRUE, den |-> den, x_left |-> x_left, x_right |-> x_right,
              alpha |-> alpha,
              value |-> [ch \in 1..Len(sig) |-> [i \in 1..new_length |->
                  y_left(ch, i) * den + (y_right(ch, i) - y_left(ch, i)) * alpha[i]]]]

(***************************************************************************)
(* convolve_signals.  A kernel argument is what np.asarray makes of it:    *)
(* its number of dimensions, whether its dtype is numeric, and its         *)
(* elements in order.                                                      *)
(***************************************************************************)
RECURSIVE SumSeq(_)
SumSeq(s) == IF s = <<>> THEN 0 ELSE Head(s) + SumSeq(Tail(s))

\* pad = len(kernel) // 2, line 138
PadWidth(k) == k \div 2

\* np.pad(x, pad, mode) for the modes "edge" and "constant" (constant_values = cval)
np_pad(x, pad, mode, cval) ==
    [i \in 1..(Len(x) + 2 * pad) |->
        IF i <= pad THEN (IF mode = "edge" THEN x[1] ELSE cval)
        ELSE IF i > pad + Len(x) THEN (IF mode = "edge" THEN x[Len(x)] ELSE cval)
        ELSE x[i - pad]]

\* a[j] for the full convolution: zero outside the array
ZeroExtended(a, j) == IF j \in 0..(Len(a) - 1) THEN a[j + 1] ELSE 0

\* np.convolve(a, v, "full")[m] = sum over j of v[j] * a[m - j]
ConvFull(a, v) ==
    [m \in 1..(Len(a) + Len(v) - 1) |->
        SumSeq([j \in 1..Len(v) |-> v[j] * ZeroExtended(a, (m - 1) - (j - 1))])]

\* a "same" output centred half a kernel in
SameOffsetHalf(k) == k \div 2

\* where the "same" output starts in the full one, for a shorter operand of length k
SameOffset(k) == (k - 1) \div 2

\* np.convolve(a, v, "same") for non-empty a and v: the operands are swapped
\* when v is the longer, and the output has the length of the longer
np_convolve_same(a, v) ==
    LET long == IF Len(v) > Len(a) THEN v ELSE a
        short == IF Len(v) > Len(a) THEN a ELSE v
        full == ConvFull(long, short)
    IN  [i \in 1..Len(long) |-> full[i + SameOffset(Len(short))]]

\* conv[pad:-pad] without the test of pad: empty when pad = 0
TrimUnguarded(conv, pad) == PySlice(conv, pad, -pad)

\* if pad > 0: conv = conv[pad:-pad], lines 144-145
Trim(conv, pad) == IF pad > 0 THEN PySlice(conv, pad, -pad) ELSE conv

\* conv_func, lines 140-146
conv_func(x, kernel, pad, mode, cval) ==
    Trim(np_convolve_same(np_pad(x, pad, mode, cval), kernel), pad)

\* the axis of a 2-D array that a (possibly negative) axis argument names
NormAxis(axis) == IF axis < 0 THEN axis + 2 ELSE axis

AxisLen(arr, axis) == IF NormAxis(axis) = 1 THEN Len(arr[1]) ELSE Len(arr)

\* the number of 1-D slices along the axis, and slice s
NSlices(arr, axis) == IF NormAxis(axis) = 1 THEN Len(arr) ELSE Len(arr[1])

AxisSlice(arr, axis, s) ==
    IF NormAxis(axis) = 1 THEN arr[s] ELSE [r \in 1..Len(arr) |-> arr[r][s]]

\* np.apply_along_axis: the array whose slices along the axis are outs[s]
FromSlices(outs, axis) ==
    IF NormAxis(axis) = 1 THEN outs
    ELSE [r \in 1..Len(outs[1]) |-> [s \in 1..Len(outs) |-> outs[s][r]]]

convolve_signals(sig, kernel, mode, cval, axis) ==
    LET ndim == IF kernel.ndim = 0 THEN 1 ELSE kernel.ndim
    IN  IF ndim # 1 THEN Raise("ValueError")
        ELSE IF ~kernel.numeric THEN Raise("ValueError")
        ELSE IF kernel.data = <<>> THEN Raise("ValueError")
        ELSE LET pad == PadWidth(Len(kernel.data))
             IN  Ok(FromSlices([s \in 1..NSlices(sig, axis) |->
                        conv_func(AxisSlice(sig, axis, s), kernel.data, pad, mode, cval)],
                     axis))

(***************************************************************************)
(* band_pass_signals.  A frequency is held as <<numerator, denominator>>;  *)
(* the forward transform is not computed: coefficient k of the transform   *)
(* of slice x is the term <<k, x>>, and a zeroed coefficient is <<>>.      *)
(***************************************************************************)
Zero == <<>>

rfft(x) == [k \in 1..(Len(x) \div 2 + 1) |-> <<k - 1, x>>]

\* np.fft.rfftfreq(n, 1 / freq): bin k is k * freq / n, k = 0..n // 2
rfftfreq(n, freq) == [k \in 1..(n \div 2 + 1) |-> <<(k - 1) * freq, n>>]

\* "if low:" instead of "if low is not None:"
IsTruthy(c) == c # None /\ c[1] # 0

IsGiven(c) == c # None

\* lines 177-181
RejectMask(sig_freq, low, high) ==
    [k \in 1..Len(sig_freq) |->
        \/ IsGiven(low) /\ sig_freq[k][1] <= low[1] * sig_freq[k][2]
        \/ IsGiven(high) /\ sig_freq[k][1] >= high[1] * sig_freq[k][2]]

\* sig_rfft[slc] = 0 on one slice of the transform, lines 182-184
ZeroMasked(spectrum, mask) ==
    [k \in 1..Len(spectrum) |-> IF mask[k] THEN Zero ELSE spectrum[k]]

\* the result is the inverse transform, of length n, of each masked slice
band_pass_signals(sig, freq, low, high, axis) ==
    IF freq <= 0 THEN Raise("ValueError")
    ELSE LET n == AxisLen(sig, axis)
             mask == RejectMask(rfftfreq(n, freq), low, high)
         IN  [ok |-> TRUE, n |-> n,
              value |-> [s \in 1..NSlices(sig, axis) |->
                            ZeroMasked(rfft(AxisSlice(sig, axis, s)), mask)]]

(***************************************************************************)
(* The annotation adapters.  A layer (the signal, or an entry of the       *)
(* annotation mapping) is [den, rows]: the 2-D array rows / den.  The      *)
(* annotation mapping is a function from its keys to layers.               *)
(***************************************************************************)
Layer(den, rows) == [den |-> den, rows |-> rows]

SignalLayer(sig) == Layer(1, sig)

EmptyAnnot == <<>>

\* annot = {key: value}: the other entries are lost
AnnotReplace(a, key, value) == [k \in {key} |-> value]

\* annot.update({key: value})
AnnotUpdate(a, key, value) ==
    [k \in (DOMAIN a) \cup {key} |-> IF k = key THEN value ELSE a[k]]

\* np.gradient(f, axis=1) on one row, times 2: one-sided differences at the
\* two ends, central differences inside; it needs two samples
GradientRow2(f) ==
    [i \in 1..Len(f) |->
        IF i = 1 THEN 2 * (f[2] - f[1])
        ELSE IF i = Len(f) THEN 2 * (f[Len(f)] - f[Len(f) - 1])
        ELSE f[i + 1] - f[i - 1]]

Gradient(layer) ==
    Layer(2 * layer.den, [ch \in 1..Len(layer.rows) |-> GradientRow2(layer.rows[ch])])

\* for i in range(n): grad = np.gradient(grad, axis=1), lines 218-219
RECURSIVE GradientTimes(_, _)
GradientTimes(layer, n) ==
    IF n <= 0 THEN layer ELSE GradientTimes(Gradient(layer), n - 1)

\* the number of np.gradient calls of get_gradient: line 217, then the loop
GradientPasses(order) == 1 + Max(order - 1, 0)

\* 'grad_{0}'.format(order)
GradKey(order) == "grad_" \o ToString(order)

\* layer + '_conv'
ConvKey(layer) == layer \o "_conv"

HmmKey == "hmm_predict"

\* data ** 2
Squared(layer) ==
    Layer(layer.den * layer.den,
          [ch \in 1..Len(layer.rows) |->
              [j \in 1..Len(layer.rows[ch]) |-> layer.rows[ch][j] * layer.rows[ch][j]]])

\* np.apply_along_axis(np.convolve, 1, data, v=kernel, mode='same')
ConvolveRows(layer, kernel) ==
    Layer(layer.den, [ch \in 1..Len(layer.rows) |-> np_convolve_same(layer.rows[ch], kernel)])

\* signal if layer == 'signal' else annot[layer]; the lookup fails on a key
\* that is absent
HasLayer(a, layer) == layer = "signal" \/ layer \in DOMAIN a

GetLayer(sig, a, layer) == IF layer = "signal" THEN SignalLayer(sig) ELSE a[layer]

\* np.concatenate(res, axis=0)[np.newaxis, :, :]: each row with its denominator
RECURSIVE ConcatLayers(_)
ConcatLayers(layers) ==
    IF layers = <<>> THEN <<>>
    ELSE [r \in 1..Len(Head(layers).rows) |-> <<Head(layers).den, Head(layers).rows[r]>>]
         \o ConcatLayers(Tail(layers))

\* what model.predict(signal.T) can do: raise, or return one label per sample
Predictions(sig) ==
    {Raise("ModelError")}
    \cup {Ok([j \in 1..TimeLen(sig) |-> 0]), Ok([j \in 1..TimeLen(sig) |-> j % 2])}

(***************************************************************************)
(* The caller's arguments.                                                 *)
(***************************************************************************)
Lengths == -1..(MaxT + 1)
Steps == -1..MaxStep
SegCounts == -1..MaxSeg
NewLengths == 1..MaxNew
Axes == {0, 1, -1}
PadModes == {"edge", "constant"}

SeqsUpTo(S, n) == UNION {[1..k -> S] : k \in 0..n}

KernelValues == {-1, 2}

Kernels ==
    {[ndim |-> 1, numeric |-> TRUE, data |-> d] : d \in SeqsUpTo(KernelValues, MaxKernel)}
    \cup {[ndim |-> 0, numeric |-> TRUE, data |-> <<2>>],
          [ndim |-> 2, numeric |-> TRUE, data |-> <<1, 1>>],
          [ndim |-> 1, numeric |-> FALSE, data |-> <<1, 0>>]}

Freqs == 0..MaxFreq
Cutoffs == {None} \cup {Some(c) : c \in 0..MaxCut}
Orders == -1..MaxOrder
LayerKernels == {<<>>, <<1, 2>>}

(***************************************************************************)
(* Actions: one call of a transform on the signal.  The transforms are     *)
(* pure, so a behaviour is one call: op is "none" until the call returns.  *)
(***************************************************************************)
Segment ==
    \E length \in Lengths, step \in Steps :
        /\ op = "none"
        /\ op' = "segment"
        /\ args' = [length |-> length, step |-> step]
        /\ res' = segment_signals(signals, length, step)
        /\ UNCHANGED <<signals, annot>>

RandomSegment ==
    \E length \in Lengths, n \in SegCounts :
        \E ix \in Draws(signals, length, n) :
            /\ op = "none"
            /\ op' = "random_segment"
            /\ args' = [length |-> length, n_segments |-> n]
            /\ res' = random_segment_signals(signals, length, n, ix)
            /\ UNCHANGED <<signals, annot>>

Resample ==
    \E new_length \in NewLengths :
        \E oob \in OutOfBounds :
            /\ op = "none"
            /\ op' = "resample"
            /\ args' = [new_length |-> new_length]
            /\ res' = resample_signals(signals, new_length, oob)
            /\ UNCHANGED <<signals, annot>>

Convolve ==
    \E kernel \in Kernels, mode \in PadModes, axis \in Axes :
        /\ op = "none"
        /\ op' = "convolve"
        /\ args' = [kernel |-> kernel, padding_mode |-> mode, axis |-> axis]
        /\ res' = convolve_signals(signals, kernel, mode, 0, axis)
        /\ UNCHANGED <<signals, annot>>

BandPass ==
    \E freq \in Freqs, low \in Cutoffs, high \in Cutoffs, axis \in Axes :
        /\ op = "none"
        /\ op' = "band_pass"
        /\ args' = [freq |-> freq, low |-> low, high |-> high, axis |-> axis]
        /\ res' = band_pass_signals(signals, freq, low, high, axis)
        /\ UNCHANGED <<signals, annot>>

Init ==
    /\ signals \in Signals
    /\ annot = <<>>
    /\ op = "none"
    /\ args = <<>>
    /\ res = <<>>

Next ==
    \/ Segment
    \/ RandomSegment
    \/ Resample
    \/ Convolve
    \/ BandPass

Spec == Init /\ [][Next]_vars

(***************************************************************************)
(* The adapters: each call reads the pipeline tuple (signal, annotation)   *)
(* and changes the annotation mapping in place.  The signal of the caller  *)
(* stays what it is; merge_list_of_layers returns the merged array in res. *)
(* A call that would add an entry is taken only below MaxKeys entries.     *)
(***************************************************************************)
HasRoom(key) == key \in DOMAIN annot \/ Cardinality(DOMAIN annot) < MaxKeys

PredictHmmClasses ==
    \E p \in Predictions(signals) :
        /\ op' = "predict_hmm_classes"
        /\ args' = <<>>
        /\ IF p.ok
           THEN /\ HasRoom(HmmKey)
                /\ annot' = AnnotUpdate(annot, HmmKey, Layer(1, <<p.value>>))
                /\ res' = [ok |-> TRUE, key |-> HmmKey]
           ELSE /\ annot' = annot
                /\ res' = p
        /\ UNCHANGED signals

GetGradient ==
    \E order \in Orders :
        /\ op' = "get_gradient"
        /\ args' = [order |-> order]
        /\ IF TimeLen(signals) < 2
           THEN /\ annot' = annot
                /\ res' = Raise("ValueError")
           ELSE /\ HasRoom(GradKey(order))
                /\ annot' = AnnotUpdate(annot, GradKey(order),
                                GradientTimes(SignalLayer(signals), GradientPasses(order)))
                /\ res' = [ok |-> TRUE, key |-> GradKey(order),
                           passes |-> GradientPasses(order)]
        /\ UNCHANGED signals

ConvolveLayer ==
    \E layer \in {"signal", "absent"} \cup DOMAIN annot, kernel \in LayerKernels :
        /\ op' = "convolve_layer"
        /\ args' = [layer |-> layer, kernel |-> kernel]
        /\ IF ~HasLayer(annot, layer)
           THEN /\ annot' = annot
                /\ res' = Raise("KeyError")
           ELSE IF kernel = <<>>
           THEN /\ annot' = annot
                /\ res' = Raise("ValueError")
           ELSE /\ HasRoom(ConvKey(layer))
                /\ annot' = AnnotUpdate(annot, ConvKey(layer),
                                ConvolveRows(Squared(GetLayer(signals, annot, layer)), kernel))
                /\ res' = [ok |-> TRUE, key |-> ConvKey(layer)]
        /\ UNCHANGED signals

MergeListOfLayers ==
    \E list_of_layers \in SeqsUpTo({"signal", "absent"} \cup DOMAIN annot, 2) :
        /\ op' = "merge_list_of_layers"
        /\ args' = [list_of_layers |-> list_of_layers]
        /\ annot' = annot
        /\ res' = IF \E i \in 1..Len(list_of_layers) : ~HasLayer(annot, list_of_layers[i])
                  THEN Raise("KeyError")
                  ELSE LET layers == [i \in 1..Len(list_of_layers) |->
                                         GetLayer(signals, annot, list_of_layers[i])]
                       IN  IF layers = <<>>
                              \/ \E i \in 1..Len(layers) :
                                     TimeLen(layers[i].rows) # TimeLen(layers[1].rows)
                           THEN Raise("ValueError")
                           ELSE Ok(<<ConcatLayers(layers)>>)
        /\ UNCHANGED signals

PipelineSignals == {MkSignal(c, t, "bits") : c \in 1..MaxCh, t \in 1..MaxT}

InitPipeline ==
    /\ signals \in PipelineSignals
    /\ annot = EmptyAnnot
    /\ op = "none"
    /\ args = <<>>
    /\ res = <<>>

NextPipeline ==
    \/ PredictHmmClasses
    \/ GetGradient
    \/ ConvolveLayer
    \/ MergeListOfLayers

SpecPipeline == InitPipeline /\ [][NextPipeline]_vars

(***************************************************************************)
(* Properties of the windowing functions.                                  *)
(***************************************************************************)
ValidWindow(length) == 1 <= length /\ length <= TimeLen(signals)

\* the 2-D array signals[:, o : o + length], by direct indexing
WindowAt(o, length) ==
    [ch \in 1..NChannels(signals) |-> [j \in 1..length |-> signals[ch][o + j]]]

\* C1: for 1 <= length <= T and step >= 1, segment_signals returns exactly
\* floor((T - length) / step) + 1 windows (as many as there are i >= 0 with
\* i*step + length <= T), window i is signals[:, i*step : i*step + length],
\* and every index read lies in [0, T-1].
C1_SegmentWindows ==
    (op = "segment" /\ ValidWindow(args.length) /\ args.step >= 1) =>
        LET T == TimeLen(signals)
            L == args.length
            P == args.step
        IN  /\ res.ok
            /\ Len(res.value) = (T - L) \div P + 1
            /\ Len(res.value) = Cardinality({i \in 0..T : i * P + L <= T})
            /\ \A i \in 0..(Len(res.value) - 1) :
                    /\ i * P >= 0
                    /\ i * P + L - 1 <= T - 1
                    /\ res.value[i + 1] = WindowAt(i * P, L)

C1_Witness ==
    /\ op = "segment"
    /\ signals = MkSignal(2, 4, "ramp")
    /\ args = [length |-> 1, step |-> 2]
    /\ res.ok
    /\ Len(res.value) = 2
    /\ res.value[2] = <<<<2>>, <<6>>>>

\* C2: for 1 <= length <= T and n_segments >= 1, every outcome of
\* random_segment_signals has n_segments windows of the given length, window
\* i is signals[:, o : o + length] for the drawn offset o, 0 <= o <= T - length,
\* and the offsets that can be drawn are exactly those of [0, T - length].
C2_RandomSegmentWindows ==
    (op = "random_segment" /\ ValidWindow(args.length) /\ args.n_segments >= 1) =>
        LET T == TimeLen(signals)
            L == args.length
            N == args.n_segments
        IN  /\ res.ok
            /\ Len(res.value) = N
            /\ Draws(signals, L, N) = [1..N -> 0..(T - L)]
            /\ \A i \in 1..N :
                    /\ res.ix[i] \in 0..(T - L)
                    /\ res.value[i] = WindowAt(res.ix[i], L)

C2_Witness ==
    /\ op = "random_segment"
    /\ signals = MkSignal(2, 4, "ramp")
    /\ args = [length |-> 2, n_segments |-> 2]
    /\ res.ok
    /\ res.ix = <<2, 0>>
    /\ res.value[1] = <<<<2, 3>>, <<6, 7>>>>

\* C6: segment_signals and random_segment_signals raise, and return no
\* batch, whenever length <= 0, step <= 0 (resp. n_segments <= 0) or
\* length > time_len.
C6_InvalidArgumentsRaise ==
    /\ (op = "segment" /\ (~ValidWindow(args.length) \/ args.step <= 0)) => ~res.ok
    /\ (op = "random_segment" /\ (~ValidWindow(args.length) \/ args.n_segments <= 0))
           => ~res.ok

(***************************************************************************)
(* Properties of resample_signals.                                         *)
(***************************************************************************)
LastColumnKept ==
    /\ res.ok
    /\ \A ch \in 1..NChannels(signals) :
        res.value[ch][args.new_length] = signals[ch][TimeLen(signals)] * res.den

\* C3 as stated: for T >= 2 and every new_length >= 1 the last column of the
\* output is the last column of the signal.
C3_LastColumnAnyLength ==
    (op = "resample" /\ TimeLen(signals) >= 2) => LastColumnKept

\* C3 amended: for T >= 2 and every new_length >= 2 the last column of the
\* output is the last column of the signal, exactly.
C3_LastColumn ==
    (op = "resample" /\ TimeLen(signals) >= 2 /\ args.new_length >= 2) => LastColumnKept

C3_Witness ==
    /\ op = "resample"
    /\ signals = MkSignal(2, 4, "ramp")
    /\ args.new_length = 3
    /\ res.ok
    /\ res.value[2][3] = 7 * res.den
    /\ res.alpha[2] # 0

\* C10: for T >= 1 and new_length >= 1 every column index read (x_left and
\* x_right) lies in [0, T-1], and x_right = min(x_left + 1, T-1) at every
\* position.
C10_ReadsInsideBuffer ==
    (op = "resample") =>
        \A i \in 1..args.new_length :
            /\ res.x_left[i] \in 0..(TimeLen(signals) - 1)
            /\ res.x_right[i] \in 0..(TimeLen(signals) - 1)
            /\ res.x_right[i] = Min(res.x_left[i] + 1, TimeLen(signals) - 1)

(***************************************************************************)
(* Properties of convolve_signals.                                         *)
(***************************************************************************)
\* a kernel that passes the checks of lines 132-137 and has k >= 1 elements
ValidKernel(kernel) == kernel.ndim \in {0, 1} /\ kernel.numeric /\ Len(kernel.data) >= 1

Shape(arr) == <<Len(arr), Len(arr[1])>>

IsRectangular(arr) == \A r \in 1..Len(arr) : Len(arr[r]) = Len(arr[1])

\* C4: for a non-empty slice of length n and a kernel of length k >= 1 (odd
\* or even, also k > n) the padded slice has n + 2*floor(k/2) elements, the
\* "same" convolution as many, and the trimmed result n: the output array
\* has the shape of the input.
C4_ConvolveKeepsShape ==
    (op = "convolve" /\ ValidKernel(args.kernel)) =>
        LET k == Len(args.kernel.data)
            n == AxisLen(signals, args.axis)
        IN  /\ res.ok
            /\ IsRectangular(res.value)
            /\ Shape(res.value) = Shape(signals)
            /\ \A s \in 1..NSlices(signals, args.axis) :
                   LET x == AxisSlice(signals, args.axis, s)
                       x_pad == np_pad(x, k \div 2, args.padding_mode, 0)
                   IN  /\ Len(x_pad) = n + 2 * (k \div 2)
                       /\ Len(np_convolve_same(x_pad, args.kernel.data)) = Len(x_pad)
                       /\ Len(AxisSlice(res.value, args.axis, s)) = n

C4_Witness ==
    /\ op = "convolve"
    /\ ValidKernel(args.kernel)
    /\ Len(args.kernel.data) = 2
    /\ args.axis = 0
    /\ Shape(signals) = <<1, 3>>
    /\ res.ok
    /\ Shape(res.value) = <<1, 3>>

C4_WitnessLongKernel ==
    /\ op = "convolve"
    /\ ValidKernel(args.kernel)
    /\ Len(args.kernel.data) > AxisLen(signals, args.axis)
    /\ res.ok

\* C9: every output sample i of a slice is the sum over j of
\* kernel[j] * x_pad[i + pad + floor((k-1)/2) - j], every index of which lies
\* inside the padded slice (the zero extension of the convolution is never
\* read), for odd and even k; so with edge padding a slice that is constant
\* c maps to the constant c * sum(kernel).
C9_ConvolveReadsPaddedSliceOnly ==
    (op = "convolve" /\ ValidKernel(args.kernel)) =>
        LET kernel == args.kernel.data
            k == Len(kernel)
            pad == k \div 2
        IN  /\ res.ok
            /\ \A s \in 1..NSlices(signals, args.axis) :
                   LET x == AxisSlice(signals, args.axis, s)
                       out == AxisSlice(res.value, args.axis, s)
                       x_pad == np_pad(x, pad, args.padding_mode, 0)
                       idx(i, j) == i + pad + ((k - 1) \div 2) - j
                   IN  /\ Len(out) = Len(x)
                       /\ \A i \in 0..(Len(x) - 1) :
                              /\ \A j \in 0..(k - 1) : idx(i, j) \in 0..(Len(x_pad) - 1)
                              /\ out[i + 1] =
                                     SumSeq([j \in 1..k |-> kernel[j] * x_pad[idx(i, j - 1) + 1]])
                       /\ (args.padding_mode = "edge" /\ \A i \in 1..Len(x) : x[i] = x[1]) =>
                              \A i \in 1..Len(x) : out[i] = x[1] * SumSeq(kernel)

C9_Witness ==
    /\ op = "convolve"
    /\ signals = MkSignal(1, 3, "square")
    /\ args = [kernel |-> [ndim |-> 1, numeric |-> TRUE, data |-> <<2, -1>>],
               padding_mode |-> "edge", axis |-> 1]
    /\ res.ok
    /\ res.value = <<<<1, 3, 8>>>>

C9_WitnessConstant ==
    /\ op = "convolve"
    /\ signals = MkSignal(2, 3, "const")
    /\ args.padding_mode = "edge"
    /\ args.axis = 1
    /\ args.kernel.data = <<2, 2, -1>>
    /\ res.ok
    /\ res.value = <<<<6, 6, 6>>, <<9, 9, 9>>>>

(***************************************************************************)
(* Properties of band_pass_signals.                                        *)
(***************************************************************************)
\* C5: with freq > 0 and axis length n, bin k (k = 0..floor(n/2), frequency
\* k*freq/n) is zeroed if and only if low is given and k*freq/n <= low, or
\* high is given and k*freq/n >= high; with neither given no bin is zeroed,
\* and a bin that is not zeroed keeps its transform value.
C5_BandPassMask ==
    (op = "band_pass" /\ args.freq > 0) =>
        LET n == AxisLen(signals, args.axis)
            rejected(k) ==
                \/ args.low # None /\ k * args.freq <= args.low[1] * n
                \/ args.high # None /\ k * args.freq >= args.high[1] * n
        IN  /\ res.ok
            /\ res.n = n
            /\ \A s \in 1..NSlices(signals, args.axis) :
                   /\ Len(res.value[s]) = n \div 2 + 1
                   /\ \A k \in 0..(n \div 2) :
                          /\ (res.value[s][k + 1] = Zero) <=> rejected(k)
                          /\ ~rejected(k) =>
                                 res.value[s][k + 1] = <<k, AxisSlice(signals, args.axis, s)>>
            /\ (args.low = None /\ args.high = None) =>
                   \A s \in 1..NSlices(signals, args.axis) :
                       res.value[s] = rfft(AxisSlice(signals, args.axis, s))

C5_Witness ==
    /\ op = "band_pass"
    /\ signals = MkSignal(1, 4, "ramp")
    /\ args = [freq |-> 2, low |-> Some(0), high |-> Some(1), axis |-> 1]
    /\ res.ok
    /\ res.value[1] = <<Zero, <<1, <<0, 1, 2, 3>>>>, Zero>>

C5_WitnessIdentity ==
    /\ op = "band_pass"
    /\ args.freq > 0
    /\ args.low = None
    /\ args.high = None
    /\ res.ok
    /\ \A s \in 1..Len(res.value) : \A k \in 1..Len(res.value[s]) : res.value[s][k] # Zero

(***************************************************************************)
(* Properties of the annotation adapters.                                  *)
(***************************************************************************)
\* the arrays a.rows / a.den and b.rows / b.den are equal
SameLayer(a, b) ==
    /\ Shape(a.rows) = Shape(b.rows)
    /\ \A ch \in 1..Len(a.rows) : \A j \in 1..Len(a.rows[ch]) :
           a.rows[ch][j] * b.den = b.rows[ch][j] * a.den

\* C7: get_gradient applies the difference operator along the time axis
\* exactly `order` times (order = 0 gives the signal itself) and stores the
\* result under "grad_<order>": the number of passes is the number in the key.
C7_GradientOrder ==
    (op = "get_gradient" /\ res.ok /\ args.order >= 0) =>
        /\ res.key = "grad_" \o ToString(args.order)
        /\ res.passes = args.order
        /\ SameLayer(annot[res.key], GradientTimes(SignalLayer(signals), args.order))

\* C8: starting from the empty mapping, no adapter call removes a key: a
\* successful get_gradient / convolve_layer / predict_hmm_classes adds or
\* overwrites exactly one key ("grad_<order>", "<layer>_conv", "hmm_predict")
\* and leaves every other entry as it was; merge_list_of_layers and a failed
\* call change no entry.
C8_Step ==
    /\ DOMAIN annot \subseteq DOMAIN annot'
    /\ (res'.ok /\ op' # "merge_list_of_layers") =>
           /\ res'.key = (CASE op' = "get_gradient" -> "grad_" \o ToString(args'.order)
                            [] op' = "convolve_layer" -> args'.layer \o "_conv"
                            [] OTHER -> "hmm_predict")
           /\ DOMAIN annot' = (DOMAIN annot) \cup {res'.key}
           /\ \A k \in (DOMAIN annot) \ {res'.key} : annot'[k] = annot[k]
    /\ (~res'.ok \/ op' = "merge_list_of_layers") => annot' = annot

C8_AnnotationKeysKept == [][C8_Step]_vars

C8_Witness ==
    /\ op = "convolve_layer"
    /\ args.layer = "grad_1"
    /\ res.ok
    /\ DOMAIN annot = {"grad_1", "grad_1_conv"}
    /\ annot["grad_1"] = GradientTimes(SignalLayer(signals), 1)
    /\ TimeLen(signals) >= 3

=============================================================================
